---- MODULE Spec2Model ----
(***************************************************************************)
(* Model of the salesperson dashboard (src/app.py).                        *)
(*                                                                         *)
(* The script is run top to bottom once when the session starts and once   *)
(* more after every widget interaction.  A run loads the table through the *)
(* memoised load_data(), and, when the table is not empty, filters it by   *)
(* region, builds the salesperson list, and computes the summary metrics,  *)
(* the per-region aggregate, the top-10 and the detail of the selected     *)
(* salesperson.                                                            *)
(*                                                                         *)
(* Text is a sequence of one-character strings, so that concatenation and  *)
(* Python's code-point ordering of str are computed and not assumed.       *)
(* Numbers of the data file are non-negative integer literals (fractions   *)
(* are read in scaled units); a numeric cell of the table is a record      *)
(* [isnan, val], isnan being pandas' NaN.  REGION is present in every row  *)
(* of the files considered.                                                *)
(***************************************************************************)
EXTENDS Integers, Sequences, FiniteSets, TLC

(* ----------------------------- bounds ---------------------------------- *)
\* Longest data file (rows under the header) of the dashboard specification.
MaxRows == 3
\* Longest data file of the load specification.
MaxLoadRows == 2
\* Longest data file of the salesperson specification.
MaxSellerRows == 3
\* Longest data file of the top-10 specification (longer than the top-10).
MaxTopRows == 11

(* --------------------------- text values ------------------------------- *)
\* Unicode code points of the characters used (Python compares str by them).
CodePoint ==
  [c \in {" ", "/", ".", "0", "1", "2", "3", "4", "5", "6", "7", "8", "9",
          "A", "D", "N", "O", "S", "T", "a", "b", "c", "e", "i", "l", "n",
          "o", "r", "s", "u", "d", "v", "x"} |->
     CASE c = " " -> 32 [] c = "/" -> 47 [] c = "." -> 46
       [] c = "0" -> 48 [] c = "1" -> 49 [] c = "2" -> 50 [] c = "3" -> 51
       [] c = "4" -> 52 [] c = "5" -> 53 [] c = "6" -> 54 [] c = "7" -> 55
       [] c = "8" -> 56 [] c = "9" -> 57
       [] c = "A" -> 65 [] c = "D" -> 68 [] c = "N" -> 78 [] c = "O" -> 79
       [] c = "S" -> 83 [] c = "T" -> 84
       [] c = "a" -> 97 [] c = "b" -> 98 [] c = "c" -> 99 [] c = "d" -> 100
       [] c = "e" -> 101 [] c = "i" -> 105 [] c = "l" -> 108 [] c = "n" -> 110
       [] c = "o" -> 111 [] c = "r" -> 114 [] c = "s" -> 115 [] c = "u" -> 117
       [] c = "v" -> 118 [] c = "x" -> 120]

Digits == {"0", "1", "2", "3", "4", "5", "6", "7", "8", "9"}

\* Python's str < str: lexicographic by code point, a proper prefix first.
RECURSIVE StrLess(_, _)
StrLess(s, t) ==
  IF t = <<>> THEN FALSE
  ELSE IF s = <<>> THEN TRUE
  ELSE IF Head(s) = Head(t) THEN StrLess(Tail(s), Tail(t))
  ELSE CodePoint[Head(s)] < CodePoint[Head(t)]

\* One step of sorted(): x goes after every element that is not greater.
RECURSIVE InsertStr(_, _)
InsertStr(x, sorted) ==
  IF sorted = <<>> THEN <<x>>
  ELSE IF StrLess(x, Head(sorted)) THEN <<x>> \o sorted
  ELSE <<Head(sorted)>> \o InsertStr(x, Tail(sorted))

\* Python's sorted() on a list of str (stable, ascending).
RECURSIVE Sorted(_)
Sorted(list) ==
  IF list = <<>> THEN <<>>
  ELSE InsertStr(list[Len(list)], Sorted(SubSeq(list, 1, Len(list) - 1)))

\* Series.unique().tolist(): the distinct values in order of first appearance.
RECURSIVE Unique(_)
Unique(list) ==
  IF list = <<>> THEN <<>>
  ELSE LET init == Unique(SubSeq(list, 1, Len(list) - 1))
           x == list[Len(list)]
       IN IF \E i \in DOMAIN init : init[i] = x THEN init ELSE Append(init, x)

(* -------------------------- numeric cells ------------------------------ *)
NaN == [isnan |-> TRUE, val |-> 0]
Num(n) == [isnan |-> FALSE, val |-> n]

DigitVal(c) == CodePoint[c] - 48

\* The value of a digit string, most significant digit first.
RECURSIVE ParseDigits(_, _)
ParseDigits(cell, acc) ==
  IF cell = <<>> THEN Num(acc)
  ELSE IF Head(cell) \in Digits
       THEN ParseDigits(Tail(cell), 10 * acc + DigitVal(Head(cell)))
       ELSE NaN

\* pd.to_numeric(column, errors='coerce') on one cell read by read_csv: an
\* empty field is NaN, a literal is its value, anything else becomes NaN.
ToNumeric(cell) == IF cell = <<>> THEN NaN ELSE ParseDigits(cell, 0)

\* Series.astype(str) on one cell: an empty field (NaN) reads 'nan'.
AsStr(cell) == IF cell = <<>> THEN <<"n", "a", "n">> ELSE cell

(* ------------------------------ load_data ------------------------------ *)
VARIABLES
  csv,                 \* the data file vendedores.csv: [kind, rows]
  cache,               \* the memo of st.cache_data for load_data()
  df,                  \* the table returned by load_data() in the last run
  load_error,          \* the st.error shown by load_data(), "none" if none
  selected_regions,    \* value of the region multiselect
  selected_seller,     \* value of the salesperson selectbox
  all_regions,         \* options of the region multiselect
  df_filtered_region,  \* the region-filtered view
  all_sellers,         \* sorted distinct full names of the view
  seller_options,      \* options of the salesperson selectbox
  metric_ventas,       \* st.metric "Ventas Totales Filtro (USD)"
  metric_unidades,     \* st.metric "Unidades Totales Vendidas"
  metric_top,          \* st.metric "Vendedor con Mayor Venta": [value, delta]
  df_grouped_region,   \* the per-region aggregate
  df_top_sellers,      \* the top-10 by PORCENTAJE_DE_VENTAS
  seller_data,         \* <<row>> of the selected salesperson, <<>> if none
  detail_info,         \* TRUE when the "select a salesperson" note is shown
  df_display,          \* the renamed table of the third tab
  page_error,          \* TRUE when the final "could not load" error is shown
  exception,           \* the uncaught exception that ended the run, or "none"
  computed             \* the computations the last run executed

vars == <<csv, cache, df, load_error, selected_regions, selected_seller,
          all_regions, df_filtered_region, all_sellers, seller_options,
          metric_ventas, metric_unidades, metric_top, df_grouped_region, df_top_sellers,
          seller_data, detail_info, df_display, page_error, exception,
          computed>>

\* pd.read_csv: the rows under the header, labelled 0, 1, ... (RangeIndex).
ReadCsv(rows) ==
  [i \in 1..Len(rows) |->
     [idx |-> i - 1, ID |-> rows[i].ID, NOMBRE |-> rows[i].NOMBRE,
      APELLIDO |-> rows[i].APELLIDO, REGION |-> rows[i].REGION,
      SALARIO |-> rows[i].SALARIO,
      UNIDADES_VENDIDAS |-> rows[i].UNIDADES_VENDIDAS,
      VENTAS_TOTALES |-> rows[i].VENTAS_TOTALES,
      PORCENTAJE_DE_VENTAS |-> rows[i].PORCENTAJE_DE_VENTAS]]

\* Steps 3 and 4 of load_data on one row: the four numeric conversions and
\* the full name VENDEDOR = str(NOMBRE) + ' ' + str(APELLIDO).
Convert(r) ==
  [idx |-> r.idx, ID |-> r.ID, NOMBRE |-> r.NOMBRE, APELLIDO |-> r.APELLIDO,
   REGION |-> r.REGION,
   SALARIO |-> ToNumeric(r.SALARIO),
   UNIDADES_VENDIDAS |-> ToNumeric(r.UNIDADES_VENDIDAS),
   VENTAS_TOTALES |-> ToNumeric(r.VENTAS_TOTALES),
   PORCENTAJE_DE_VENTAS |-> ToNumeric(r.PORCENTAJE_DE_VENTAS),
   VENDEDOR |-> AsStr(r.NOMBRE) \o <<" ">> \o AsStr(r.APELLIDO)]

\* Variant of KeyMetricsPresent: dropna() without the subset, so that a
\* missing SALARIO drops the row too.
AllFiguresPresent(r) ==
  /\ ~r.UNIDADES_VENDIDAS.isnan
  /\ ~r.VENTAS_TOTALES.isnan
  /\ ~r.PORCENTAJE_DE_VENTAS.isnan
  /\ ~r.SALARIO.isnan

\* The row test of dropna(subset=[...]): TRUE for a row that is kept.
KeyMetricsPresent(r) ==
  /\ ~r.UNIDADES_VENDIDAS.isnan
  /\ ~r.VENTAS_TOTALES.isnan
  /\ ~r.PORCENTAJE_DE_VENTAS.isnan

\* Step 5 of load_data: the rows kept, with their labels and order.
DropNa(table) == SelectSeq(table, KeyMetricsPresent)

\* The body of load_data(): the table and the error it reports.
LoadData(file) ==
  IF file.kind = "absent"
  THEN [df |-> <<>>, err |-> "FileNotFoundError"]
  ELSE IF file.kind # "ok"
  THEN [df |-> <<>>, err |-> "Exception"]
  ELSE LET raw == ReadCsv(file.rows)
           converted == [i \in DOMAIN raw |-> Convert(raw[i])]
       IN [df |-> DropNa(converted), err |-> "none"]

\* Variant of CachedLoadData: the memo hands out the one stored object, and
\* the region filter has narrowed it in place.
CachedLoadDataShared ==
  IF cache.filled
  THEN [df |-> df_filtered_region, err |-> cache.err]
  ELSE LoadData(csv)

\* @st.cache_data: the body runs on the first call only; later calls get a
\* copy of the stored result (and the replay of its st.error).
CachedLoadData ==
  IF cache.filled THEN [df |-> cache.df, err |-> cache.err] ELSE LoadData(csv)

\* DataFrame.empty
Empty(table) == Len(table) = 0

\* Variant of HasData: the script without its guard.
HasDataAlways(table) == TRUE

\* The test of the script's "if not df.empty".
HasData(table) == ~Empty(table)

(* ---------------------------- sidebar ---------------------------------- *)
TODAS == <<"T", "O", "D", "A", "S">>
NoSeller == <<"S", "e", "l", "e", "c", "c", "i", "o", "n", "a", " ",
              "u", "n", " ", "v", "e", "n", "d", "e", "d", "o", "r",
              ".", ".", ".">>

Column(table, name) == [i \in DOMAIN table |-> table[i][name]]

\* all_regions = ['TODAS'] + sorted(df['REGION'].unique().tolist())
AllRegions(table) == <<TODAS>> \o Sorted(Unique(Column(table, "REGION")))

\* Variant of IsIn: the mask negated (df[~df['REGION'].isin(...)]).
IsInComplement(column, values) ==
  [i \in DOMAIN column |-> column[i] \notin values]

\* Series.isin(values): the boolean mask of the rows.
IsIn(column, values) == [i \in DOMAIN column |-> column[i] \in values]

\* df[mask]: the rows whose mask is True, labels and order kept.
RECURSIVE BoolIndex(_, _)
BoolIndex(table, mask) ==
  IF table = <<>> THEN <<>>
  ELSE IF Head(mask) THEN <<Head(table)>> \o BoolIndex(Tail(table), Tail(mask))
  ELSE BoolIndex(Tail(table), Tail(mask))

\* DataFrame.copy(): a new table with the same rows.
Copy(table) == [i \in DOMAIN table |-> table[i]]

\* Variant of RegionFilter: an empty selection is read as "no filter".
RegionFilterEmptyIsAll(table, selection) ==
  IF TODAS \in selection \/ selection = {}
  THEN Copy(table)
  ELSE BoolIndex(table, IsIn(Column(table, "REGION"), selection))

\* Variant of RegionFilter: 'TODAS' counts only when it is the whole
\* selection (selected_regions == ['TODAS']).
RegionFilterOnlySentinel(table, selection) ==
  IF selection = {TODAS}
  THEN Copy(table)
  ELSE BoolIndex(table, IsIn(Column(table, "REGION"), selection))

\* The region filter: the whole table for a selection with 'TODAS', else the
\* rows whose REGION is selected.
RegionFilter(table, selection) ==
  IF TODAS \in selection
  THEN Copy(table)
  ELSE BoolIndex(table, IsIn(Column(table, "REGION"), selection))

\* Variant of AllSellers: the names of the whole table, not of the view.
AllSellersOfTable(view) == Sorted(Unique(Column(df, "VENDEDOR")))

\* all_sellers = sorted(df_filtered_region['VENDEDOR'].unique().tolist())
AllSellers(view) == Sorted(Unique(Column(view, "VENDEDOR")))

\* options of the salesperson selectbox
SellerOptions(view) == <<NoSeller>> \o AllSellers(view)

\* st.selectbox: the session's value while the widget (its options) is the
\* same and the value is one of them, else the first option.
Selectbox(options, previous, wanted) ==
  IF options = previous /\ \E i \in DOMAIN options : options[i] = wanted
  THEN wanted
  ELSE options[1]

(* ------------------------- first tab: summary -------------------------- *)
\* What st.metric shows: a formatted amount, a formatted count, or a text.
Money(n) == [kind |-> "money", num |-> n, text |-> <<>>]
Count(n) == [kind |-> "count", num |-> n, text |-> <<>>]
Text(s) == [kind |-> "text", num |-> 0, text |-> s]
NA == Text(<<"N", "/", "A">>)

\* Series.sum() of a numeric column: accumulated row by row, NaN skipped.
RECURSIVE SumFrom(_, _, _)
SumFrom(table, name, acc) ==
  IF table = <<>> THEN acc
  ELSE SumFrom(Tail(table), name,
               IF Head(table)[name].isnan THEN acc
               ELSE acc + Head(table)[name].val)

ColumnSum(table, name) == SumFrom(table, name, 0)

\* Series.idxmax() scanning from row i with the best row so far: the label
\* of the first row that holds the maximum.
RECURSIVE IdxMaxFrom(_, _, _, _)
IdxMaxFrom(table, name, i, best) ==
  IF i > Len(table) THEN table[best].idx
  ELSE IdxMaxFrom(table, name, i + 1,
                  IF table[i][name].val > table[best][name].val
                  THEN i ELSE best)

IdxMax(table, name) == IdxMaxFrom(table, name, 2, 1)

\* DataFrame.loc[label]
Loc(table, label) == table[CHOOSE i \in DOMAIN table : table[i].idx = label]

\* Variant of TopSellerMetric: an empty view shows an empty name and $0.
TopSellerMetricZero(view) ==
  IF ~Empty(view)
  THEN LET max_sales_row == Loc(view, IdxMax(view, "VENTAS_TOTALES"))
       IN [value |-> Text(max_sales_row.VENDEDOR),
           delta |-> Money(max_sales_row.VENTAS_TOTALES.val)]
  ELSE [value |-> Text(<<>>), delta |-> Money(0)]

\* The third KPI: the salesperson with the largest VENTAS_TOTALES of the
\* view, or "N/A" for an empty view.
TopSellerMetric(view) ==
  IF ~Empty(view)
  THEN LET max_sales_row == Loc(view, IdxMax(view, "VENTAS_TOTALES"))
       IN [value |-> Text(max_sales_row.VENDEDOR),
           delta |-> Money(max_sales_row.VENTAS_TOTALES.val)]
  ELSE [value |-> NA, delta |-> NA]

(* ------------------------ first tab: aggregate ------------------------- *)
ZeroGroup == [units |-> 0, ventas |-> 0, pct |-> 0, n |-> 0]

\* Variant of GroupFold: a row replaces its region's sums instead of adding
\* to them.
RECURSIVE GroupFoldLast(_, _)
GroupFoldLast(table, acc) ==
  IF table = <<>> THEN acc
  ELSE LET r == Head(table)
       IN GroupFoldLast(Tail(table),
            [acc EXCEPT ![r.REGION] =
               [units |-> r.UNIDADES_VENDIDAS.val,
                ventas |-> r.VENTAS_TOTALES.val,
                pct |-> r.PORCENTAJE_DE_VENTAS.val,
                n |-> 1]])

\* One pass of groupby(...).agg(...): every row is added to its region's
\* running sums.
RECURSIVE GroupFold(_, _)
GroupFold(table, acc) ==
  IF table = <<>> THEN acc
  ELSE LET r == Head(table)
           g == acc[r.REGION]
       IN GroupFold(Tail(table),
            [acc EXCEPT ![r.REGION] =
               [units |-> g.units + r.UNIDADES_VENDIDAS.val,
                ventas |-> g.ventas + r.VENTAS_TOTALES.val,
                pct |-> g.pct + r.PORCENTAJE_DE_VENTAS.val,
                n |-> g.n + 1]])

\* df.groupby('REGION').agg(sum, sum, mean).reset_index(): one row per group
\* key, keys sorted; the mean is kept as the fraction sum / count.
GroupByRegion(view) ==
  LET keys == Sorted(Unique(Column(view, "REGION")))
      keyset == {keys[k] : k \in DOMAIN keys}
      acc == GroupFold(view, [k \in keyset |-> ZeroGroup])
  IN [k \in DOMAIN keys |->
        [REGION |-> keys[k],
         Total_Unidades |-> acc[keys[k]].units,
         Total_Ventas |-> acc[keys[k]].ventas,
         Promedio_Porcentaje |-> [num |-> acc[keys[k]].pct,
                                  den |-> acc[keys[k]].n]]]

(* ------------------------- first tab: top 10 --------------------------- *)
\* n of head(n) in the top-sellers chart.
TopCount == 10

\* One step of the descending sort: r goes after every row whose value is
\* not smaller, so equal values keep the order of the table.
RECURSIVE InsertDesc(_, _, _)
InsertDesc(r, sorted, name) ==
  IF sorted = <<>> THEN <<r>>
  ELSE IF r[name].val > Head(sorted)[name].val THEN <<r>> \o sorted
  ELSE <<Head(sorted)>> \o InsertDesc(r, Tail(sorted), name)

\* DataFrame.sort_values(by=name, ascending=False)
RECURSIVE SortValuesDesc(_, _)
SortValuesDesc(table, name) ==
  IF table = <<>> THEN <<>>
  ELSE InsertDesc(table[Len(table)],
                  SortValuesDesc(SubSeq(table, 1, Len(table) - 1), name), name)

\* DataFrame.head(n)
HeadRows(table, n) == SubSeq(table, 1, IF n < Len(table) THEN n ELSE Len(table))

\* Variant of TopSellers: head(10) taken before the sort.
TopSellersHeadFirst(view) ==
  SortValuesDesc(HeadRows(view, TopCount), "PORCENTAJE_DE_VENTAS")

TopSellers(view) ==
  HeadRows(SortValuesDesc(view, "PORCENTAJE_DE_VENTAS"), TopCount)

(* --------------------------- second tab -------------------------------- *)
\* df_filtered_region[df_filtered_region['VENDEDOR'] == selected_seller]
SellerRows(view, seller) ==
  BoolIndex(view, [i \in DOMAIN view |-> view[i].VENDEDOR = seller])

\* .iloc[0]: the first row, IndexError on an empty table.
Iloc0(table) ==
  IF Empty(table) THEN [row |-> <<>>, raised |-> "IndexError"]
  ELSE [row |-> <<table[1]>>, raised |-> "none"]

(* ---------------------------- third tab -------------------------------- *)
\* rename(columns=columns_to_display)[list(columns_to_display.values())]
Display(view) ==
  [i \in DOMAIN view |->
     [idx |-> view[i].idx,
      Region |-> view[i].REGION,
      Nombre_Completo |-> view[i].VENDEDOR,
      ID_Vendedor |-> view[i].ID,
      Salario_USD |-> view[i].SALARIO,
      Unidades_Vendidas |-> view[i].UNIDADES_VENDIDAS,
      Ventas_Totales_USD |-> view[i].VENTAS_TOTALES,
      Porcentaje_de_Ventas |-> view[i].PORCENTAJE_DE_VENTAS]]

(* ------------------------------ the run -------------------------------- *)
NoMetric == Text(<<>>)

\* The else branch of the script: only the final error is shown.
ErrorPage ==
  /\ page_error' = TRUE
  /\ selected_regions' = selected_regions
  /\ selected_seller' = selected_seller
  /\ all_regions' = <<>>
  /\ df_filtered_region' = <<>>
  /\ all_sellers' = <<>>
  /\ seller_options' = <<>>
  /\ metric_ventas' = NoMetric
  /\ metric_unidades' = NoMetric
  /\ metric_top' = [value |-> NoMetric, delta |-> NoMetric]
  /\ df_grouped_region' = <<>>
  /\ df_top_sellers' = <<>>
  /\ seller_data' = <<>>
  /\ detail_info' = FALSE
  /\ df_display' = <<>>
  /\ exception' = "none"
  /\ computed' = {"load_data"}

\* The body of "if not df.empty": sidebar, the three tabs.
Dashboard(table, regions, wanted) ==
  LET view == RegionFilter(table, regions)
      options == SellerOptions(view)
      seller == Selectbox(options, seller_options, wanted)
      looked == seller # NoSeller
      found == Iloc0(SellerRows(view, seller))
      raised == IF looked THEN found.raised ELSE "none"
  IN /\ page_error' = FALSE
     /\ all_regions' = AllRegions(table)
     /\ selected_regions' = regions
     /\ df_filtered_region' = view
     /\ all_sellers' = AllSellers(view)
     /\ seller_options' = options
     /\ selected_seller' = seller
     /\ metric_ventas' = Money(ColumnSum(view, "VENTAS_TOTALES"))
     /\ metric_unidades' = Count(ColumnSum(view, "UNIDADES_VENDIDAS"))
     /\ metric_top' = TopSellerMetric(view)
     /\ df_grouped_region' = GroupByRegion(view)
     /\ df_top_sellers' = TopSellers(view)
     /\ seller_data' = IF looked THEN found.row ELSE <<>>
     /\ detail_info' = ~looked
     /\ exception' = raised
     /\ df_display' = IF raised = "none" THEN Display(view) ELSE <<>>
     /\ computed' = {"load_data", "region_filter", "all_sellers",
                     "summary_metrics", "aggregate", "top_n"}
                    \cup (IF looked THEN {"lookup"} ELSE {})
                    \cup (IF raised = "none" THEN {"display"} ELSE {})

\* One run of the script with the widgets' session values.
Run(regions, wanted) ==
  LET loaded == CachedLoadData
  IN /\ cache' = [filled |-> TRUE, df |-> loaded.df, err |-> loaded.err]
     /\ df' = loaded.df
     /\ load_error' = loaded.err
     /\ csv' = csv
     /\ IF HasData(loaded.df)
        THEN Dashboard(loaded.df, regions, wanted)
        ELSE ErrorPage

\* The session opens: the first run, every widget at its default.
Start ==
  /\ ~cache.filled
  /\ Run({TODAS}, NoSeller)

\* The user changes the region multiselect to any set of its options.
ChangeRegions ==
  /\ cache.filled
  /\ ~page_error
  /\ \E regions \in SUBSET {all_regions[i] : i \in DOMAIN all_regions} :
       /\ regions # selected_regions
       /\ Run(regions, selected_seller)

\* The user picks another entry of the salesperson selectbox.
ChangeSeller ==
  /\ cache.filled
  /\ ~page_error
  /\ \E i \in DOMAIN seller_options :
       /\ seller_options[i] # selected_seller
       /\ Run(selected_regions, seller_options[i])

Next == Start \/ ChangeRegions \/ ChangeSeller

(* --------------------------- initial states ---------------------------- *)
\* Data files: absent, unreadable, lacking a required column, or a header
\* with at most n rows drawn from rowset; ID is the position in the file.
WithIds(rows) ==
  [i \in DOMAIN rows |->
     [ID |-> i, NOMBRE |-> rows[i].NOMBRE, APELLIDO |-> rows[i].APELLIDO,
      REGION |-> rows[i].REGION, SALARIO |-> rows[i].SALARIO,
      UNIDADES_VENDIDAS |-> rows[i].UNIDADES_VENDIDAS,
      VENTAS_TOTALES |-> rows[i].VENTAS_TOTALES,
      PORCENTAJE_DE_VENTAS |-> rows[i].PORCENTAJE_DE_VENTAS]]

Files(rowset, n) ==
  {[kind |-> k, rows |-> <<>>] : k \in {"absent", "unreadable", "nocolumn"}}
  \cup {[kind |-> "ok", rows |-> WithIds(rows)] :
          rows \in UNION {[1..k -> rowset] : k \in 0..n}}

\* Rows of the dashboard specification: two regions and three salespeople,
\* each with figures of their own (two of them with the same full name, one
\* with an empty first name and one without a salary).
NamePairs == {<< <<"a">>, <<"b", " ", "b">> >>,
              << <<"a", " ", "b">>, <<"b">> >>,
              << <<>>, <<"b">> >>}
Regions == {<<"n">>, <<"s">>}
Profiles ==
  {<< << <<"a">>, <<"b", " ", "b">> >>, << <<"1">>, <<"2">>, <<"1">>, <<>> >> >>,
   << << <<"a", " ", "b">>, <<"b">> >>, << <<"2">>, <<"1">>, <<"2">>, <<"7">> >> >>,
   << << <<>>, <<"b">> >>, << <<"3">>, <<"2">>, <<"2">>, <<"5">> >> >>}

RawRow(name, region, figures) ==
  [NOMBRE |-> name[1], APELLIDO |-> name[2], REGION |-> region,
   UNIDADES_VENDIDAS |-> figures[1], VENTAS_TOTALES |-> figures[2],
   PORCENTAJE_DE_VENTAS |-> figures[3], SALARIO |-> figures[4]]

DashboardRows == {RawRow(p[1], r, p[2]) : p \in Profiles, r \in Regions}

\* Rows of the salesperson specification: every name pair in every region.
SellerRowSet ==
  {RawRow(n, r, << <<"1">>, <<"1">>, <<"1">>, <<"5">> >>) :
     n \in NamePairs, r \in Regions}

\* Rows of the load specification: every figure empty, unparseable or a
\* literal.
Cells == {<<>>, <<"1", "x">>, <<"1", "2">>}
LoadRows ==
  {RawRow(<< <<"a">>, <<"b">> >>, <<"n">>, <<u, v, p, s>>) :
     u \in Cells, v \in Cells, p \in Cells, s \in {<<>>, <<"5">>}}

\* Rows of the top-10 specification: only the percentage varies.
TopRows ==
  {RawRow(<< <<"a">>, <<"b">> >>, <<"n">>, << <<"1">>, <<"1">>, p, <<"5">> >>) :
     p \in {<<"1">>, <<"2">>}}

\* The state before the first run of a session over the file.
Fresh(file) ==
  /\ csv = file
  /\ cache = [filled |-> FALSE, df |-> <<>>, err |-> "none"]
  /\ df = <<>>
  /\ load_error = "none"
  /\ selected_regions = {TODAS}
  /\ selected_seller = NoSeller
  /\ all_regions = <<>>
  /\ df_filtered_region = <<>>
  /\ all_sellers = <<>>
  /\ seller_options = <<>>
  /\ metric_ventas = NoMetric
  /\ metric_unidades = NoMetric
  /\ metric_top = [value |-> NoMetric, delta |-> NoMetric]
  /\ df_grouped_region = <<>>
  /\ df_top_sellers = <<>>
  /\ seller_data = <<>>
  /\ detail_info = FALSE
  /\ df_display = <<>>
  /\ page_error = FALSE
  /\ exception = "none"
  /\ computed = {}

Init == \E file \in Files(DashboardRows, MaxRows) : Fresh(file)
InitLoad == \E file \in Files(LoadRows, MaxLoadRows) : Fresh(file)
InitTop == \E file \in Files(TopRows, MaxTopRows) : Fresh(file)
InitSellers == \E file \in Files(SellerRowSet, MaxSellerRows) : Fresh(file)

Spec == Init /\ [][Next]_vars
SpecLoad == InitLoad /\ [][Next]_vars
SpecTop == InitTop /\ [][Next]_vars
SpecSellers == InitSellers /\ [][Next]_vars

(* ------------------------------ claims --------------------------------- *)
\* A run has drawn the dashboard (the table was not empty).
Rendered == cache.filled /\ ~page_error

RowSet(table) == {table[i] : i \in DOMAIN table}

\* Position of the row labelled idx in a table.
PosOf(table, label) == CHOOSE i \in DOMAIN table : table[i].idx = label

\* C1 as stated: on an empty filtered view the three summary metrics (total
\* sales, total units, top seller) all show "N/A", never zero.
C1_AllMetricsNA ==
  (Rendered /\ Empty(df_filtered_region)) =>
    /\ metric_ventas = NA
    /\ metric_unidades = NA
    /\ metric_top.value = NA

\* C1 as amended: on an empty filtered view the top-seller metric shows
\* "N/A" (value and delta) and no exception is raised, while the total sales
\* and the total units are shown as zero.
C1_TopSellerNATotalsZero ==
  (Rendered /\ Empty(df_filtered_region)) =>
    /\ metric_top = [value |-> NA, delta |-> NA]
    /\ metric_ventas = Money(0)
    /\ metric_unidades = Count(0)
    /\ exception = "none"
    /\ {"summary_metrics", "aggregate", "top_n", "display"} \subseteq computed

C1_Witness ==
  /\ Rendered
  /\ Empty(df_filtered_region)
  /\ Len(df) >= 2
  /\ "summary_metrics" \in computed

\* C2 as stated: with an empty region selection the filter returns the
\* full loaded table, as it does for 'TODAS'.
C2_EmptySelectionFullTable ==
  (Rendered /\ selected_regions = {}) => df_filtered_region = df

\* C2 as amended: with an empty region selection the filter returns no row
\* at all (the loaded table of a drawn dashboard has at least one).
C2_EmptySelectionNoRows ==
  (Rendered /\ selected_regions = {}) =>
    /\ df_filtered_region = <<>>
    /\ Len(df) > 0

C2_Witness ==
  /\ Rendered
  /\ selected_regions = {}
  /\ Len(df) >= 2
  /\ "region_filter" \in computed

\* C3: a selection that contains 'TODAS', alone or with regions, yields the
\* rows of the loaded table, all of them, in the same order.
C3_SentinelFullTable ==
  (Rendered /\ TODAS \in selected_regions) =>
    /\ Len(df_filtered_region) = Len(df)
    /\ \A i \in DOMAIN df : df_filtered_region[i] = df[i]
    /\ df = cache.df

C3_Witness ==
  /\ Rendered
  /\ TODAS \in selected_regions
  /\ selected_regions # {TODAS}
  /\ \E i \in DOMAIN df : df[i].REGION \notin selected_regions
  /\ Len(df_filtered_region) >= 2

\* C4: a selection S without 'TODAS' yields exactly the rows of the loaded
\* table whose region is in S, in their original relative order; no row of
\* the result has a region outside S and the result is no longer than the
\* table.
C4_SubsequenceOfSelected ==
  (Rendered /\ TODAS \notin selected_regions) =>
    /\ \A i \in DOMAIN df_filtered_region :
         /\ df_filtered_region[i].REGION \in selected_regions
         /\ df_filtered_region[i] \in RowSet(df)
    /\ \A j \in DOMAIN df :
         df[j].REGION \in selected_regions => df[j] \in RowSet(df_filtered_region)
    /\ \A i, k \in DOMAIN df_filtered_region :
         i < k => PosOf(df, df_filtered_region[i].idx)
                    < PosOf(df, df_filtered_region[k].idx)
    /\ Len(df_filtered_region) <= Len(df)

C4_Witness ==
  /\ Rendered
  /\ TODAS \notin selected_regions
  /\ Len(df_filtered_region) >= 2
  /\ Len(df_filtered_region) < Len(df)
  /\ df[1].REGION \notin selected_regions

\* A cell of the data file that holds a number: not empty, digits only.
Literal(cell) == cell # <<>> /\ \A k \in DOMAIN cell : cell[k] \in Digits

KeyCellsLiteral(raw) ==
  /\ Literal(raw.UNIDADES_VENDIDAS)
  /\ Literal(raw.VENTAS_TOTALES)
  /\ Literal(raw.PORCENTAJE_DE_VENTAS)

\* C5: after a load every row of the table has a number in UNIDADES_VENDIDAS,
\* VENTAS_TOTALES and PORCENTAJE_DE_VENTAS; a row of the file is dropped
\* exactly when one of the three is absent or unparseable, so a row that
\* lacks only SALARIO is kept.
C5_KeyMetricsPresent ==
  (cache.filled /\ csv.kind = "ok") =>
    /\ \A j \in DOMAIN df :
         /\ ~df[j].UNIDADES_VENDIDAS.isnan
         /\ ~df[j].VENTAS_TOTALES.isnan
         /\ ~df[j].PORCENTAJE_DE_VENTAS.isnan
    /\ \A i \in DOMAIN csv.rows :
         (\E j \in DOMAIN df : df[j].idx = i - 1) <=> KeyCellsLiteral(csv.rows[i])
    /\ \A j, k \in DOMAIN df : j < k => df[j].idx < df[k].idx

C5_Witness ==
  /\ cache.filled
  /\ csv.kind = "ok"
  /\ Len(csv.rows) = 2
  /\ Len(df) = 1
  /\ df[1].SALARIO.isnan
  /\ df[1].idx = 1
  /\ csv.rows[1].UNIDADES_VENDIDAS = <<"1", "x">>

\* Sum of a column over the rows at the positions of a set.
RECURSIVE SumOver(_, _, _)
SumOver(positions, table, name) ==
  IF positions = {} THEN 0
  ELSE LET i == CHOOSE j \in positions : TRUE
       IN table[i][name].val + SumOver(positions \ {i}, table, name)

RegionsOf(table) == {table[i].REGION : i \in DOMAIN table}
RowsOfRegion(table, region) == {i \in DOMAIN table : table[i].REGION = region}

\* The per-region sums of an aggregate, without the order of its rows.
SumsOf(grouped) ==
  {<<grouped[k].REGION, grouped[k].Total_Unidades, grouped[k].Total_Ventas>> :
     k \in DOMAIN grouped}

Permuted(table, p) == [i \in DOMAIN table |-> table[p[i]]]

\* C6: the aggregate of the filtered view has one group per region of the
\* view; a group's Total_Unidades and Total_Ventas are the sums over the
\* view's rows of that region; the sums are the same for every permutation
\* of the view's rows.
C6_AggregateSums ==
  Rendered =>
    /\ {df_grouped_region[k].REGION : k \in DOMAIN df_grouped_region}
         = RegionsOf(df_filtered_region)
    /\ Len(df_grouped_region) = Cardinality(RegionsOf(df_filtered_region))
    /\ \A k \in DOMAIN df_grouped_region :
         LET rows == RowsOfRegion(df_filtered_region, df_grouped_region[k].REGION)
         IN /\ df_grouped_region[k].Total_Unidades
                 = SumOver(rows, df_filtered_region, "UNIDADES_VENDIDAS")
            /\ df_grouped_region[k].Total_Ventas
                 = SumOver(rows, df_filtered_region, "VENTAS_TOTALES")
    /\ \A p \in Permutations(DOMAIN df_filtered_region) :
         SumsOf(GroupByRegion(Permuted(df_filtered_region, p)))
           = SumsOf(df_grouped_region)

C6_Witness ==
  /\ Rendered
  /\ Len(df_filtered_region) = 3
  /\ Len(df_grouped_region) = 2
  /\ df_filtered_region[1].REGION = df_filtered_region[3].REGION
  /\ df_filtered_region[1].VENTAS_TOTALES # df_filtered_region[3].VENTAS_TOTALES
  /\ df_grouped_region[2].Total_Ventas = 3

\* C7: the top-10 of the filtered view is in non-increasing
\* PORCENTAJE_DE_VENTAS order, has min(10, rows of the view) rows, each a
\* row of the view taken once, and no row left out has a strictly greater
\* percentage than a row returned.
C7_TopTen ==
  Rendered =>
    /\ \A i, k \in DOMAIN df_top_sellers :
         i < k => df_top_sellers[i].PORCENTAJE_DE_VENTAS.val
                    >= df_top_sellers[k].PORCENTAJE_DE_VENTAS.val
    /\ Len(df_top_sellers)
         = (IF Len(df_filtered_region) > 10 THEN 10 ELSE Len(df_filtered_region))
    /\ RowSet(df_top_sellers) \subseteq RowSet(df_filtered_region)
    /\ Cardinality(RowSet(df_top_sellers)) = Len(df_top_sellers)
    /\ \A out \in RowSet(df_filtered_region) \ RowSet(df_top_sellers) :
         \A in \in RowSet(df_top_sellers) :
           out.PORCENTAJE_DE_VENTAS.val <= in.PORCENTAJE_DE_VENTAS.val

C7_Witness ==
  /\ Rendered
  /\ Len(df_filtered_region) = 11
  /\ Len(df_top_sellers) = 10
  /\ df_filtered_region[11].PORCENTAJE_DE_VENTAS.val = 2
  /\ df_filtered_region[1].PORCENTAJE_DE_VENTAS.val = 1
  /\ df_top_sellers[1] = df_filtered_region[11]

\* C8: when the load fails (file absent, or another exception while reading
\* or cleaning) load_data returns an empty table and shows an error instead
\* of raising, and the run goes straight to the error display: no region
\* filter, salesperson list or lookup, aggregate, top-10 or summary metric
\* is computed.
C8_FailedLoadShortCircuits ==
  (cache.filled /\ csv.kind # "ok") =>
    /\ df = <<>>
    /\ load_error = (IF csv.kind = "absent" THEN "FileNotFoundError"
                     ELSE "Exception")
    /\ exception = "none"
    /\ page_error
    /\ computed = {"load_data"}
    /\ all_regions = <<>> /\ seller_options = <<>>
    /\ df_filtered_region = <<>> /\ all_sellers = <<>>
    /\ df_grouped_region = <<>> /\ df_top_sellers = <<>>
    /\ seller_data = <<>> /\ df_display = <<>>
    /\ metric_ventas = NoMetric /\ metric_unidades = NoMetric
    /\ metric_top = [value |-> NoMetric, delta |-> NoMetric]

C8_Witness ==
  /\ cache.filled
  /\ csv.kind = "absent"
  /\ load_error = "FileNotFoundError"
  /\ page_error

\* The rows a region selection asks for, read off the table.
Selected(table, selection) ==
  IF TODAS \in selection THEN table
  ELSE SelectSeq(table, LAMBDA r : r.REGION \in selection)

\* C9: no interaction changes the loaded table: every run after the load
\* gets the rows, order and values the load produced, and the filtered view
\* of a run is determined by that table and the run's region selection.
C9_SourceTableImmutable ==
  [][/\ df' = cache'.df
     /\ cache.filled =>
          /\ cache' = cache
          /\ df' = df
          /\ df' = LoadData(csv').df
          /\ Rendered' => df_filtered_region' = Selected(df, selected_regions')]_vars

C9_Witness ==
  /\ Rendered
  /\ TODAS \notin selected_regions
  /\ selected_seller # NoSeller
  /\ Len(df_filtered_region) < Len(df)
  /\ df = LoadData(csv).df

\* First position of a full name in a table (0 if there is none).
FirstPos(table, name) ==
  IF \E i \in DOMAIN table : table[i].VENDEDOR = name
  THEN CHOOSE i \in DOMAIN table :
         /\ table[i].VENDEDOR = name
         /\ \A j \in 1..(i - 1) : table[j].VENDEDOR # name
  ELSE 0

\* C10: the salesperson options are the "no selection" sentinel followed by
\* the distinct full names of the filtered view in ascending order; the
\* lookup of any of those names finds a row, without an index error, namely
\* the first row of the view with that full name; with the sentinel selected
\* no lookup is made and the "nothing selected" note is shown.
C10_SellerLookup ==
  Rendered =>
    /\ seller_options = <<NoSeller>> \o all_sellers
    /\ {all_sellers[k] : k \in DOMAIN all_sellers}
         = {df_filtered_region[i].VENDEDOR : i \in DOMAIN df_filtered_region}
    /\ \A k \in 1..(Len(all_sellers) - 1) :
         StrLess(all_sellers[k], all_sellers[k + 1])
    /\ \A k \in DOMAIN all_sellers :
         LET found == Iloc0(SellerRows(df_filtered_region, all_sellers[k]))
         IN /\ found.raised = "none"
            /\ found.row = <<df_filtered_region[
                               FirstPos(df_filtered_region, all_sellers[k])]>>
    /\ \E k \in DOMAIN seller_options : seller_options[k] = selected_seller
    /\ exception = "none"
    /\ selected_seller # NoSeller =>
         /\ "lookup" \in computed
         /\ ~detail_info
         /\ seller_data = <<df_filtered_region[
                              FirstPos(df_filtered_region, selected_seller)]>>
    /\ selected_seller = NoSeller =>
         /\ "lookup" \notin computed
         /\ detail_info
         /\ seller_data = <<>>

C10_Witness ==
  /\ Rendered
  /\ selected_seller # NoSeller
  /\ Len(all_sellers) = 2
  /\ Len(df_filtered_region) = 3
  /\ df_filtered_region[1].VENDEDOR # selected_seller
  /\ df_filtered_region[2].VENDEDOR = selected_seller
  /\ df_filtered_region[3].VENDEDOR = selected_seller
  /\ df_filtered_region[2].NOMBRE # df_filtered_region[3].NOMBRE
  /\ seller_data = <<df_filtered_region[2]>>
  /\ all_sellers[1] = selected_seller

====
